---- MODULE Spec2Model ----
(***************************************************************************)
(* Model of srst-clips: the clipboard monitor (clips/clipboard_monitor.py). *)
(* Texts are sequences of one-character strings.                           *)
(***************************************************************************)
EXTENDS Integers, Sequences, FiniteSets, TLC

\* ---------------------------------------------------------------- bounds
MaxLen == 2        \* longest text the user copies
MaxCopies == 3     \* number of copies the user makes in one run
MaxSize == 3       \* largest value the user sets the size spin box to
FmtMaxLen == 3     \* longest text given to format_text_for_ai on its own
FmtMaxMatches == 2 \* longest list of matches given to it
PollMaxCopies == 1 \* number of copies the user makes in a run of SpecPoll
MaxStep == 2       \* longest time one round of the client's wait loop
                   \* takes, in tenths of a second

Letters == {"a", "b"}
Whitespace == {" "}
Windows == {"0x1"}
None == "None"

\* texts the user can put on the system clipboard
Texts == UNION {[1..n -> Letters] \cup [1..n -> Whitespace] : n \in 0..MaxLen}

\* ------------------------------------------------------ program constants
DefaultHistorySize == 10
PreviewLen == 100
ResultLen == 30
max_wait == 5           \* dbus_client: seconds to wait for the service
TenthsPerSecond == 10   \* dbus_client: time.sleep(0.1) in the wait loop

\* ------------------------------------------------------ string primitives
\* Python: past_text in text
IsSubstr(p, t) ==
    \E i \in 0..(Len(t) - Len(p)) : SubSeq(t, i + 1, i + Len(p)) = p

RECURSIVE LStrip(_)
LStrip(t) ==
    IF t # <<>> /\ Head(t) \in Whitespace THEN LStrip(Tail(t)) ELSE t

RECURSIVE RStrip(_)
RStrip(t) ==
    IF t # <<>> /\ t[Len(t)] \in Whitespace
    THEN RStrip(SubSeq(t, 1, Len(t) - 1))
    ELSE t

\* Python: text.strip()
Strip(t) == RStrip(LStrip(t))

\* Python: text[:n]
Prefix(t, n) == SubSeq(t, 1, IF Len(t) < n THEN Len(t) ELSE n)

RECURSIVE ReplaceEmpty(_, _)
ReplaceEmpty(t, new) ==
    IF t = <<>> THEN new
    ELSE new \o <<Head(t)>> \o ReplaceEmpty(Tail(t), new)

RECURSIVE Replace(_, _, _)
\* Python: t.replace(old, new): leftmost non-overlapping occurrences
Replace(t, old, new) ==
    IF old = <<>> THEN ReplaceEmpty(t, new)
    ELSE IF Len(t) < Len(old) THEN t
    ELSE IF SubSeq(t, 1, Len(old)) = old
         THEN new \o Replace(SubSeq(t, Len(old) + 1, Len(t)), old, new)
         ELSE <<Head(t)>> \o Replace(Tail(t), old, new)

\* mutant: the scan runs oldest first
Reversed_Identity(s) == s

RECURSIVE Reversed(_)
Reversed(s) ==
    IF s = <<>> THEN <<>> ELSE Reversed(Tail(s)) \o <<Head(s)>>

\* Python: list.index(x), the first position holding x (1-based here)
Index(s, x) == CHOOSE i \in 1..Len(s) : s[i] = x /\ \A j \in 1..(i - 1) : s[j] # x

\* mutant: a full deque grows instead of evicting
DequeAppend_NoEvict(d, x, m) == d \o <<x>>

\* mutant: a full deque drops its newest entry instead of its oldest
DequeAppend_EvictNewest(d, x, m) ==
    IF m = 0 THEN d
    ELSE IF Len(d) >= m THEN SubSeq(d, 1, Len(d) - 1) \o <<x>>
    ELSE d \o <<x>>

\* collections.deque(maxlen=m).append(x)
DequeAppend(d, x, m) ==
    IF m = 0 THEN d
    ELSE IF Len(d) >= m THEN Tail(d) \o <<x>>
    ELSE d \o <<x>>

RECURSIVE DequeExtend(_, _, _)
DequeExtend(d, items, m) ==
    IF items = <<>> THEN d
    ELSE DequeExtend(DequeAppend(d, Head(items), m), Tail(items), m)

\* ------------------------------------------------------------------ state
VARIABLES
    clipboard,          \* QApplication.clipboard().text()
    dataChanged,        \* a clipboard.dataChanged signal awaits delivery
    copies,             \* copies made by the user so far
    last_text,          \* self.last_text
    history_size,       \* self.history_size
    clipboard_history,  \* self.clipboard_history, oldest first
    history_maxlen,     \* self.clipboard_history.maxlen
    target_window_id,   \* self.target_window_id
    history_list,       \* items of the QListWidget, top first
    result,             \* value returned by the last handler, if any
    notify_calls,       \* notify-send runs made by the last handler
    inject_calls,       \* xdotool runs made by the last handler
    handler,            \* history variable: the handler that ran last
    history_before,     \* history variable: clipboard_history as that
                        \* handler found it
    fmt_pc,             \* format_text_for_ai run on its own: "idle" (not
                        \* run), "call" or "done"
    fmt_text,           \* its argument text
    fmt_matches,        \* its argument matches
    fmt_result,         \* the value it returned
    cl_pc,              \* dbus_client.main: where it is ("idle": not run)
    cl_elapsed,         \* time.time() - start_time, in tenths of a second
    cl_launched,        \* srst-clips was started by the client
    cl_observed,        \* is_service_running has returned True
    cl_called,          \* interface.call("explain") was made
    cl_exit,            \* the exit status of main, None while it runs
    service_registered  \* org.srst.ClipboardMonitor is on the session bus

vars == <<clipboard, dataChanged, copies, last_text, history_size,
          clipboard_history, history_maxlen, target_window_id, history_list,
          result, notify_calls, inject_calls, handler, history_before,
          fmt_pc, fmt_text, fmt_matches, fmt_result,
          cl_pc, cl_elapsed, cl_launched, cl_observed, cl_called, cl_exit,
          service_registered>>

monitorVars == <<clipboard, dataChanged, copies, last_text, history_size,
                 clipboard_history, history_maxlen, target_window_id,
                 history_list, result, notify_calls, inject_calls, handler,
                 history_before>>

clVars == <<cl_pc, cl_elapsed, cl_launched, cl_observed, cl_called, cl_exit,
            service_registered>>

fmtVars == <<fmt_pc, fmt_text, fmt_matches, fmt_result>>

\* the monitor object and its collaborators as one record; a handler is an
\* operator from the record before it runs to the record after it returned
Self ==
    [clipboard |-> clipboard, dataChanged |-> dataChanged,
     last_text |-> last_text, history_size |-> history_size,
     clipboard_history |-> clipboard_history,
     history_maxlen |-> history_maxlen,
     target_window_id |-> target_window_id,
     history_list |-> history_list, result |-> <<>>,
     notify_calls |-> <<>>, inject_calls |-> <<>>]

\* the handler's result s is worked out once and stored field by field
Commit(s) ==
    \E r \in {s} :
       /\ clipboard' = r.clipboard
       /\ dataChanged' = r.dataChanged
       /\ last_text' = r.last_text
       /\ history_size' = r.history_size
       /\ clipboard_history' = r.clipboard_history
       /\ history_maxlen' = r.history_maxlen
       /\ target_window_id' = r.target_window_id
       /\ history_list' = r.history_list
       /\ result' = r.result
       /\ notify_calls' = r.notify_calls
       /\ inject_calls' = r.inject_calls

\* ------------------------------------------------------------ MatchEngine
RECURSIVE MatchesFrom_ByValue(_, _, _, _)
\* mutant: every slot that holds the text itself is skipped
MatchesFrom_ByValue(i, idx, text, hl) ==
    IF i > Len(hl) THEN <<>>
    ELSE (IF hl[i] # text /\ IsSubstr(hl[i], text) THEN <<hl[i]>> ELSE <<>>)
         \o MatchesFrom_ByValue(i + 1, idx, text, hl)

RECURSIVE MatchesFrom_NoContainment(_, _, _, _)
\* mutant: the loop leaves out the containment test
MatchesFrom_NoContainment(i, idx, text, hl) ==
    IF i > Len(hl) THEN <<>>
    ELSE (IF i # idx THEN <<hl[i]>> ELSE <<>>)
         \o MatchesFrom_NoContainment(i + 1, idx, text, hl)

RECURSIVE MatchesFrom(_, _, _, _)
\* the loop of find_matches from position i on
MatchesFrom(i, idx, text, hl) ==
    IF i > Len(hl) THEN <<>>
    ELSE (IF i # idx /\ IsSubstr(hl[i], text) THEN <<hl[i]>> ELSE <<>>)
         \o MatchesFrom(i + 1, idx, text, hl)

find_matches(text, hl) ==
    IF \E i \in 1..Len(hl) : hl[i] = text
    THEN MatchesFrom(1, Index(hl, text), text, hl)
    ELSE <<>>

\* ------------------------------------------------------------ Transformer
Digits == <<"0", "1", "2", "3", "4", "5", "6", "7", "8", "9">>

RECURSIVE Decimal(_)
\* Python: str(n) for n >= 0
Decimal(n) ==
    IF n < 10 THEN <<Digits[n + 1]>>
    ELSE Decimal(n \div 10) \o <<Digits[(n % 10) + 1]>>

Bold(m) == <<"<", "b", ">">> \o m \o <<"<", "/", "b", ">">>

RECURSIVE BoldAll(_, _)
BoldAll(html_text, matches) ==
    IF matches = <<>> THEN html_text
    ELSE BoldAll(Replace(html_text, Head(matches), Bold(Head(matches))),
                 Tail(matches))

\* the text of the QListWidgetItem that add_history_item adds
add_history_item(text, matches) ==
    IF matches # <<>>
    THEN <<"(">> \o Decimal(Len(matches)) \o <<")", " ">>
         \o BoldAll(text, matches)
    ELSE text

RECURSIVE DisplayItems(_, _)
DisplayItems(items, hl) ==
    IF items = <<>> THEN <<>>
    ELSE <<add_history_item(Head(items), find_matches(Head(items), hl))>>
         \o DisplayItems(Tail(items), hl)

\* mutant: the list is filled oldest first
update_history_display_OldestFirst(hl) == DisplayItems(hl, hl)

\* the content of history_list after update_history_display
update_history_display(hl) == DisplayItems(Reversed(hl), hl)

RECURSIVE InsertByLen(_, _)
\* x goes behind every element that is at least as long (stable)
InsertByLen(x, s) ==
    IF s = <<>> THEN <<x>>
    ELSE IF Len(Head(s)) >= Len(x) THEN <<Head(s)>> \o InsertByLen(x, Tail(s))
    ELSE <<x>> \o s

RECURSIVE SortedByLenDesc(_)
\* Python: sorted(matches, key=len, reverse=True)
SortedByLenDesc(matches) ==
    IF matches = <<>> THEN <<>>
    ELSE InsertByLen(matches[Len(matches)],
                     SortedByLenDesc(SubSeq(matches, 1, Len(matches) - 1)))

\* mutant: the marker is a dash, f"-{match}-"
Star_Dash(m) == <<"-">> \o m \o <<"-">>

Star(m) == <<"*">> \o m \o <<"*">>

RECURSIVE StarAll(_, _)
StarAll(formatted_text, sorted_matches) ==
    IF sorted_matches = <<>> THEN formatted_text
    ELSE StarAll(Replace(formatted_text, Head(sorted_matches),
                         Star(Head(sorted_matches))),
                 Tail(sorted_matches))

format_text_for_ai(text, matches) == StarAll(text, SortedByLenDesc(matches))

\* ------------------------------------------------------- IngestController
\* the notify-send run of show_notification; ok = FALSE when
\* subprocess.run raised and the handler swallowed it
show_notification(title, message, ok) ==
    [title |-> title, message |-> message, ok |-> ok]

Preview(text) ==
    Prefix(text, PreviewLen)
    \o (IF Len(text) > PreviewLen THEN <<".", ".", ".">> ELSE <<>>)

\* mutant: a notify-send that raised ends the handler before the display
\* is refreshed
accept_clipboard_text_NotifyAborts(s, text, notify_ok) ==
         LET h == DequeAppend(s.clipboard_history, text, s.history_maxlen)
             matches == find_matches(text, h)
             calls == IF matches # <<>> /\ Len(matches) > 0
                      THEN <<show_notification(
                                <<Decimal(Len(matches)), " matches found">>,
                                Preview(text), notify_ok)>>
                      ELSE <<>>
         IN  [s EXCEPT !.last_text = text,
                       !.clipboard_history = h,
                       !.notify_calls = @ \o calls,
                       !.history_list = IF calls # <<>> /\ ~notify_ok
                                        THEN @
                                        ELSE update_history_display(h)]

\* process_clipboard_text behind its early return
accept_clipboard_text(s, text, notify_ok) ==
         LET h == DequeAppend(s.clipboard_history, text, s.history_maxlen)
             matches == find_matches(text, h)
             calls == IF matches # <<>> /\ Len(matches) > 0
                      THEN <<show_notification(
                                <<Decimal(Len(matches)), " matches found">>,
                                Preview(text), notify_ok)>>
                      ELSE <<>>
         IN  [s EXCEPT !.last_text = text,
                       !.clipboard_history = h,
                       !.notify_calls = @ \o calls,
                       !.history_list = update_history_display(h)]

\* mutant: no early return on the text processed last
process_clipboard_text_NoDedup(s, text, notify_ok) ==
    accept_clipboard_text(s, text, notify_ok)

process_clipboard_text(s, text, notify_ok) ==
    IF text = s.last_text THEN s
    ELSE accept_clipboard_text(s, text, notify_ok)

\* mutant: the timer's handler does nothing
check_clipboard_Off(s, notify_ok) == s

\* mutant: the poll stores whatever non-blank text the clipboard holds
check_clipboard_NoMarker(s, notify_ok) ==
    IF Strip(s.clipboard) # <<>>
    THEN accept_clipboard_text(s, s.clipboard, notify_ok)
    ELSE s

check_clipboard(s, notify_ok) ==
    LET text == s.clipboard
    IN  IF text # s.last_text /\ Strip(text) # <<>>
        THEN process_clipboard_text(s, text, notify_ok)
        ELSE s

\* mutant: the notification handler takes blank text too
on_clipboard_change_NoStrip(s, notify_ok) ==
    process_clipboard_text(s, s.clipboard, notify_ok)

on_clipboard_change(s, notify_ok) ==
    LET text == s.clipboard
    IN  IF Strip(text) # <<>>
        THEN process_clipboard_text(s, text, notify_ok)
        ELSE s

\* ------------------------------------------------------------ SnippetStore
\* mutant: the slice keeps the oldest entries, list(h)[:size]
LastN_Oldest(h, size) == SubSeq(h, 1, IF Len(h) > size THEN size ELSE Len(h))

\* Python: list(h)[-size:]
LastN(h, size) ==
    IF size = 0 THEN h
    ELSE SubSeq(h, (IF Len(h) > size THEN Len(h) - size ELSE 0) + 1, Len(h))

update_history_size(s, size) ==
    LET items_to_copy == IF Len(s.clipboard_history) > size
                         THEN LastN(s.clipboard_history, size)
                         ELSE s.clipboard_history
        new_history == DequeExtend(<<>>, items_to_copy, size)
    IN  [s EXCEPT !.history_size = size,
                  !.clipboard_history = new_history,
                  !.history_maxlen = size,
                  !.history_list = update_history_display(new_history)]

\* ------------------------------------------------------ DispatchController
\* clipboard.setText(text): the clipboard takes the text and dataChanged is
\* emitted, delivered to on_clipboard_change inside the call (sync) or
\* queued for the event loop
setText(s, text, sync, notify_ok) ==
    LET s1 == [s EXCEPT !.clipboard = text]
    IN  IF sync THEN on_clipboard_change(s1, notify_ok)
        ELSE [s1 EXCEPT !.dataChanged = TRUE]

\* outcome of the xdotool command line: "ok", "fail" (non-zero exit status)
\* or "raise" (subprocess.run raised, caught by the handler)
InjectOutcomes == {"ok", "fail", "raise"}

send_to_ai_window(s, text, sync, notify_ok, outcome) ==
    IF s.target_window_id = None THEN s
    ELSE LET s1 == setText(s, text, sync, notify_ok)
         IN  [s1 EXCEPT !.inject_calls =
                  @ \o <<[window |-> s1.target_window_id,
                          pasted |-> s1.clipboard,
                          outcome |-> outcome]>>]

\* mutant: the scan takes the first item whatever its matches
FirstCandidate_AnyItem(items, hl) ==
    IF items = <<>> THEN <<>> ELSE <<Head(items)>>

RECURSIVE FirstCandidate(_, _)
\* the first item of the scan of explain with a match, as <<item>>, or <<>>
FirstCandidate(items, hl) ==
    IF items = <<>> THEN <<>>
    ELSE IF Len(find_matches(Head(items), hl)) > 0 THEN <<Head(items)>>
    ELSE FirstCandidate(Tail(items), hl)

\* explain gets as far as send_to_ai_window
Dispatches(s) ==
    /\ s.target_window_id # None
    /\ FirstCandidate(Reversed(s.clipboard_history), s.clipboard_history) # <<>>

NoTarget == <<"No target window selected">>
NoSuitable == <<"No suitable text found">>
SentToAI(item) == <<"Sent to AI: ", Prefix(item, ResultLen), "...">>

\* mutant: an injector that raised leaves the history in place
clear_history_UnlessRaised(s) ==
    IF s.inject_calls # <<>>
       /\ s.inject_calls[Len(s.inject_calls)].outcome = "raise"
    THEN s
    ELSE [s EXCEPT !.clipboard_history = <<>>,
                   !.history_list = update_history_display(<<>>)]

\* clipboard_history.clear() and update_history_display() of explain
clear_history(s) ==
    [s EXCEPT !.clipboard_history = <<>>,
              !.history_list = update_history_display(<<>>)]

\* explain behind its target check: the scan, newest first
explain_scan(s, sync, notify_ok, outcome) ==
    LET hl == s.clipboard_history
        found == FirstCandidate(Reversed(hl), hl)
    IN  IF found = <<>> THEN [s EXCEPT !.result = NoSuitable]
        ELSE LET item == found[1]
                 matches == find_matches(item, hl)
                 formatted_text == format_text_for_ai(item, matches)
                 s1 == send_to_ai_window(s, formatted_text, sync,
                                         notify_ok, outcome)
             IN  [clear_history(s1) EXCEPT !.result = SentToAI(item)]

\* mutant: no check of the target window
explain_NoTargetCheck(s, sync, notify_ok, outcome) ==
    explain_scan(s, sync, notify_ok, outcome)

explain(s, sync, notify_ok, outcome) ==
    IF s.target_window_id = None THEN [s EXCEPT !.result = NoTarget]
    ELSE explain_scan(s, sync, notify_ok, outcome)

\* ----------------------------------------------------------------- actions
MonitorInit ==
    /\ clipboard = <<>>
    /\ dataChanged = FALSE
    /\ copies = 0
    /\ last_text = <<>>
    /\ history_size = DefaultHistorySize
    /\ clipboard_history = <<>>
    /\ history_maxlen = DefaultHistorySize
    /\ target_window_id \in Windows \cup {None}
    /\ history_list = <<>>
    /\ result = <<>>
    /\ notify_calls = <<>>
    /\ inject_calls = <<>>
    /\ handler = "init"
    /\ history_before = <<>>

FmtIdle ==
    /\ fmt_pc = "idle"
    /\ fmt_text = <<>>
    /\ fmt_matches = <<>>
    /\ fmt_result = <<>>

ClientIdle ==
    /\ cl_pc = "idle"
    /\ cl_elapsed = 0
    /\ cl_launched = FALSE
    /\ cl_observed = FALSE
    /\ cl_called = FALSE
    /\ cl_exit = None
    /\ service_registered = TRUE

Init == MonitorInit /\ FmtIdle /\ ClientIdle

\* the history variables after handler h; a handler of the monitor leaves
\* the variables of the other runs alone
Ran(h) ==
    /\ handler' = h
    /\ history_before' = clipboard_history
    /\ UNCHANGED <<fmtVars, clVars>>

\* the user (or another program) puts text on the clipboard and dataChanged
\* is emitted; the event loop may deliver it late or never (no fairness on
\* OnClipboardChange), which is what the timer is for
UserCopy ==
    /\ copies < MaxCopies
    /\ \E text \in Texts : clipboard' = text
    /\ dataChanged' = TRUE
    /\ Ran("copy")
    /\ copies' = copies + 1
    /\ result' = <<>>
    /\ notify_calls' = <<>>
    /\ inject_calls' = <<>>
    /\ UNCHANGED <<last_text, history_size, clipboard_history, history_maxlen,
                   target_window_id, history_list>>

\* the event loop delivers dataChanged
OnClipboardChange ==
    /\ dataChanged
    /\ \E notify_ok \in BOOLEAN :
          Commit(on_clipboard_change([Self EXCEPT !.dataChanged = FALSE],
                                     notify_ok))
    /\ Ran("on_clipboard_change")
    /\ UNCHANGED copies

\* the 500 ms timer fires
CheckClipboard ==
    /\ \E notify_ok \in BOOLEAN : Commit(check_clipboard(Self, notify_ok))
    /\ Ran("check_clipboard")
    /\ UNCHANGED copies

\* the size spin box (range 1..50) reports a changed value
UpdateHistorySize ==
    /\ \E size \in (1..MaxSize) \ {history_size} :
          Commit(update_history_size(Self, size))
    /\ Ran("update_history_size")
    /\ UNCHANGED copies

\* find_window: xwininfo gives a window id, or it does not (no match in its
\* output, non-zero exit status, exception) and the target stays as it was
FindWindow ==
    /\ \E found \in BOOLEAN :
          IF found
          THEN \E w \in Windows : target_window_id' = w
          ELSE target_window_id' = target_window_id
    /\ Ran("find_window")
    /\ result' = <<>>
    /\ notify_calls' = <<>>
    /\ inject_calls' = <<>>
    /\ UNCHANGED <<clipboard, dataChanged, copies, last_text, history_size,
                   clipboard_history, history_maxlen, history_list>>

\* explain(), called over D-Bus or by explain_button_clicked
Explain ==
    /\ \E sync \in BOOLEAN, notify_ok \in BOOLEAN, outcome \in InjectOutcomes :
          \* the collaborators' choices exist only when explain reaches them
          /\ Dispatches(Self) \/ (~sync /\ notify_ok /\ outcome = "ok")
          /\ Commit(explain(Self, sync, notify_ok, outcome))
    /\ Ran("explain")
    /\ UNCHANGED copies

Next ==
    \/ UserCopy
    \/ OnClipboardChange
    \/ CheckClipboard
    \/ UpdateHistorySize
    \/ FindWindow
    \/ Explain

Spec == Init /\ [][Next]_vars

\* the monitor with fewer copies by the user
PollNext ==
    \/ copies < PollMaxCopies /\ UserCopy
    \/ OnClipboardChange
    \/ CheckClipboard
    \/ UpdateHistorySize
    \/ FindWindow
    \/ Explain

\* the QTimer of setup_clipboard_monitoring keeps firing every 500 ms; the
\* delivery of dataChanged gets no fairness
SpecPoll == Init /\ [][PollNext]_vars /\ WF_vars(CheckClipboard)

\* ------------------------------------------- format_text_for_ai on its own
FmtAlphabet == {"a", "b", "-", "*"}

FmtTexts == UNION {[1..n -> FmtAlphabet] : n \in 1..FmtMaxLen}

\* the non-empty substrings of text: what find_matches can return for it
Substrings(text) ==
    {SubSeq(text, i, j) : i \in 1..Len(text), j \in 1..Len(text)} \ {<<>>}

FmtInit ==
    /\ MonitorInit
    /\ target_window_id = None
    /\ fmt_pc = "call"
    /\ fmt_text \in FmtTexts
    /\ fmt_matches \in UNION {[1..n -> Substrings(fmt_text)] :
                                 n \in 0..FmtMaxMatches}
    /\ fmt_result = <<>>
    /\ ClientIdle

FormatTextForAI ==
    /\ fmt_pc = "call"
    /\ fmt_result' = format_text_for_ai(fmt_text, fmt_matches)
    /\ fmt_pc' = "done"
    /\ UNCHANGED <<fmt_text, fmt_matches>>
    /\ UNCHANGED <<monitorVars, clVars>>

FmtNext == FormatTextForAI

SpecFormat == FmtInit /\ [][FmtNext]_vars

\* ---------------------------------------------------- dbus_client.main
\* the session bus as the client finds it; the monitor is another process
\* and is left out of this specification
ClientInit ==
    /\ MonitorInit
    /\ target_window_id = None
    /\ FmtIdle
    /\ cl_pc = "start"
    /\ cl_elapsed = 0
    /\ cl_launched = FALSE
    /\ cl_observed = FALSE
    /\ cl_called = FALSE
    /\ cl_exit = None
    /\ service_registered \in BOOLEAN

\* return status from main
Return(status) ==
    /\ cl_pc' = "done"
    /\ cl_exit' = status

\* bus.isConnected()
ClConnect ==
    /\ cl_pc = "start"
    /\ \E connected \in BOOLEAN :
          IF connected THEN cl_pc' = "check" /\ cl_exit' = cl_exit
          ELSE Return(1)
    /\ UNCHANGED <<cl_elapsed, cl_launched, cl_observed, cl_called,
                   service_registered>>

\* if not is_service_running(bus, service_name)
ClCheck ==
    /\ cl_pc = "check"
    /\ cl_observed' = service_registered
    /\ cl_pc' = IF service_registered THEN "interface" ELSE "launch"
    /\ UNCHANGED <<cl_elapsed, cl_launched, cl_called, cl_exit,
                   service_registered>>

\* subprocess.Popen(["srst-clips"]) and start_time = time.time()
ClLaunch ==
    /\ cl_pc = "launch"
    /\ \E raised \in BOOLEAN :
          IF raised
          THEN Return(1) /\ UNCHANGED <<cl_launched, cl_elapsed>>
          ELSE /\ cl_launched' = TRUE
               /\ cl_elapsed' = 0
               /\ cl_pc' = "wait"
               /\ cl_exit' = cl_exit
    /\ UNCHANGED <<cl_observed, cl_called, service_registered>>

\* mutant: the while loop has no else branch and main goes on
AfterTimeout_FallThrough == "interface"

\* where main goes when the while loop ends without break: its else branch
AfterTimeout == "return1"

\* one round of: while time.time() - start_time < max_wait
ClWait ==
    /\ cl_pc = "wait"
    /\ IF cl_elapsed < max_wait * TenthsPerSecond
       THEN IF service_registered
            THEN /\ cl_observed' = TRUE
                 /\ cl_pc' = "interface"
                 /\ UNCHANGED <<cl_elapsed, cl_exit>>
            ELSE /\ \E d \in 1..MaxStep : cl_elapsed' = cl_elapsed + d
                 /\ UNCHANGED <<cl_pc, cl_observed, cl_exit>>
       ELSE /\ IF AfterTimeout = "return1" THEN Return(1)
               ELSE cl_pc' = AfterTimeout /\ cl_exit' = cl_exit
            /\ UNCHANGED <<cl_elapsed, cl_observed>>
    /\ UNCHANGED <<cl_launched, cl_called, service_registered>>

\* QDBusInterface(...) and interface.isValid()
ClInterface ==
    /\ cl_pc = "interface"
    /\ \E valid \in BOOLEAN :
          IF valid THEN cl_pc' = "call" /\ cl_exit' = cl_exit
          ELSE Return(1)
    /\ UNCHANGED <<cl_elapsed, cl_launched, cl_observed, cl_called,
                   service_registered>>

\* interface.call("explain") and return 0
ClCall ==
    /\ cl_pc = "call"
    /\ cl_called' = TRUE
    /\ Return(0)
    /\ UNCHANGED <<cl_elapsed, cl_launched, cl_observed, service_registered>>

\* the monitor registers its service (setup_dbus) or goes away
ServiceChange ==
    /\ cl_pc # "done"
    /\ service_registered' = ~service_registered
    /\ UNCHANGED <<cl_pc, cl_elapsed, cl_launched, cl_observed, cl_called,
                   cl_exit>>

ClientNext ==
    /\ \/ ClConnect
       \/ ClCheck
       \/ ClLaunch
       \/ ClWait
       \/ ClInterface
       \/ ClCall
       \/ ServiceChange
    /\ UNCHANGED <<monitorVars, fmtVars>>

SpecClient == ClientInit /\ [][ClientNext]_vars

\* =================================================================== claims
Captures == {"check_clipboard", "on_clipboard_change"}

\* the capture handler of this step reads a text that it accepts
Accepts == Strip(clipboard) # <<>> /\ clipboard # last_text

\* s2 is the last Len(s2) entries of s1, in their order
IsNewestOf(s2, s1) ==
    /\ Len(s2) <= Len(s1)
    /\ \A i \in 1..Len(s2) : s2[i] = s1[Len(s1) - Len(s2) + i]

\* C1: the number of stored snippets is at most the current capacity in
\* every state reached by captures, capacity changes and explain() calls.
C1_CapacityInvariant == Len(clipboard_history) <= history_size

\* an accepted capture arrived at a store that was full and left it full
C1_Witness ==
    /\ handler \in Captures
    /\ Len(history_before) = history_size
    /\ clipboard_history # history_before
    /\ Len(clipboard_history) = history_size

\* C2: a capacity change to n below the store length leaves exactly the n
\* newest snippets in their order; to n at least the length, the store is
\* left as it is.
C2_SetCapacityKeepsNewest ==
    [][handler' = "update_history_size" =>
         IF history_size' < Len(clipboard_history)
         THEN /\ Len(clipboard_history') = history_size'
              /\ IsNewestOf(clipboard_history', clipboard_history)
         ELSE clipboard_history' = clipboard_history]_vars

\* a capacity change cut a store of at least three snippets to two or more
C2_Witness ==
    /\ handler = "update_history_size"
    /\ Len(history_before) > history_size
    /\ history_size >= 2
    /\ Len(clipboard_history) = history_size

\* C3: an accepted capture on a store at capacity removes exactly the oldest
\* snippet, keeps the others in order and puts the new text last.
C3_FifoEviction ==
    [][(handler' \in Captures /\ Accepts
        /\ Len(clipboard_history) = history_size) =>
         /\ Len(clipboard_history') = Len(clipboard_history)
         /\ \A i \in 1..(Len(clipboard_history) - 1) :
               clipboard_history'[i] = clipboard_history[i + 1]
         /\ clipboard_history'[Len(clipboard_history')] = clipboard]_vars

\* an accepted capture evicted from a full store of two or more snippets
C3_Witness ==
    /\ handler \in Captures
    /\ Len(history_before) = history_size
    /\ history_size >= 2
    /\ clipboard_history # history_before
    /\ clipboard_history[Len(clipboard_history)] = clipboard
    /\ history_before[1] # history_before[2]

\* C4: while the clipboard holds the same text x, x is appended once: the
\* first notification or poll that reads x appends it and makes it the
\* marker, and no step that leaves x on the clipboard appends after that.
C4_DuplicateSuppression ==
    [][/\ (handler' \in Captures /\ Accepts) =>
            /\ last_text' = clipboard
            /\ clipboard_history' # <<>>
            /\ clipboard_history'[Len(clipboard_history')] = clipboard
            /\ Len(clipboard_history') =
                  (IF Len(clipboard_history) < history_size
                   THEN Len(clipboard_history) + 1 ELSE history_size)
       /\ (clipboard' = clipboard /\ last_text = clipboard) =>
            /\ last_text' = last_text
            /\ IsNewestOf(clipboard_history', clipboard_history)]_vars

\* a notification found the text that had been appended already
C4_Witness ==
    /\ handler = "on_clipboard_change"
    /\ Strip(clipboard) # <<>>
    /\ last_text = clipboard
    /\ clipboard_history = history_before
    /\ clipboard_history # <<>>
    /\ clipboard_history[Len(clipboard_history)] = clipboard
    /\ Len(clipboard_history) < history_size

\* C5: a capture of blank text or of the text processed last changes
\* neither the store nor the marker nor the displayed list, and does not
\* invoke the Notifier.
C5_RejectedCaptureNoEffect ==
    [][(handler' \in Captures /\ ~Accepts) =>
         /\ UNCHANGED <<clipboard_history, last_text, history_list>>
         /\ notify_calls' = <<>>]_vars

\* a notification found whitespace on the clipboard and left the store
C5_Witness ==
    /\ handler = "on_clipboard_change"
    /\ clipboard # <<>>
    /\ Strip(clipboard) = <<>>
    /\ clipboard # last_text
    /\ clipboard_history # <<>>
    /\ clipboard_history = history_before

\* slot i of h holds a snippet with a match: another slot holds a
\* substring of it
HasMatch(i, h) == \E j \in 1..Len(h) : j # i /\ IsSubstr(h[j], h[i])

Qualifying(h) == {i \in 1..Len(h) : HasMatch(i, h)}

Newest(slots) == CHOOSE k \in slots : \A m \in slots : m <= k

\* C6: with no target window, explain() returns the failure string, leaves
\* store, display, clipboard and marker as they are and does not invoke the
\* Text Injector.
C6_NoTargetNoEffect ==
    [][(handler' = "explain" /\ target_window_id = None) =>
         /\ result' = NoTarget
         /\ UNCHANGED <<clipboard_history, history_list, clipboard,
                        last_text, dataChanged>>
         /\ inject_calls' = <<>>]_vars

\* explain() refused for want of a target although a snippet qualified
C6_Witness ==
    /\ handler = "explain"
    /\ target_window_id = None
    /\ result = NoTarget
    /\ Qualifying(clipboard_history) # {}

\* C7: with a target window and no stored snippet that has a match,
\* explain() returns "No suitable text found", leaves store, display and
\* clipboard as they are and does not invoke the Text Injector.
C7_NoCandidateNoEffect ==
    [][(handler' = "explain" /\ target_window_id # None
        /\ Qualifying(clipboard_history) = {}) =>
         /\ result' = NoSuitable
         /\ UNCHANGED <<clipboard_history, history_list, clipboard,
                        last_text, dataChanged>>
         /\ inject_calls' = <<>>]_vars

\* explain() found nothing to send in a store of two or more snippets
C7_Witness ==
    /\ handler = "explain"
    /\ target_window_id # None
    /\ result = NoSuitable
    /\ Len(clipboard_history) >= 2

\* C8: with a target window and a qualifying snippet, explain() runs the
\* Text Injector once, on the target, and what it pastes is the rendering
\* of the newest snippet that has a match, with the matches of that snippet.
C8_DispatchNewestQualifying ==
    [][(handler' = "explain" /\ target_window_id # None
        /\ Qualifying(clipboard_history) # {}) =>
         LET h == clipboard_history
             k == Newest(Qualifying(h))
         IN  /\ Len(inject_calls') = 1
             /\ inject_calls'[1].window = target_window_id
             /\ inject_calls'[1].pasted =
                   format_text_for_ai(h[k], find_matches(h[k], h))
             /\ clipboard' = inject_calls'[1].pasted
             /\ result' = SentToAI(h[k])]_vars

\* explain() dispatched from a store in which an older snippet, of another
\* value, qualified too
C8_Witness ==
    /\ handler = "explain"
    /\ Len(inject_calls) = 1
    /\ \E i \in Qualifying(history_before) :
          /\ i < Newest(Qualifying(history_before))
          /\ history_before[i] # history_before[Newest(Qualifying(history_before))]

\* C9: when explain() has invoked the Text Injector, the store and the
\* displayed list are empty on its return, whatever the injector did.
C9_ClearOnDispatch ==
    inject_calls # <<>> => clipboard_history = <<>> /\ history_list = <<>>

\* explain() returned after an injector command that raised
C9_Witness ==
    /\ handler = "explain"
    /\ inject_calls # <<>>
    /\ inject_calls[1].outcome = "raise"
    /\ history_before # <<>>
    /\ clipboard_history = <<>>

RECURSIVE RemoveFirst(_, _)
RemoveFirst(s, x) ==
    IF s = <<>> THEN <<>>
    ELSE IF Head(s) = x THEN Tail(s)
    ELSE <<Head(s)>> \o RemoveFirst(Tail(s), x)

\* the stored snippets that are substrings of the query, in store order,
\* without one slot that holds the query itself
ExpectedMatches(query, h) ==
    RemoveFirst(SelectSeq(h, LAMBDA x : IsSubstr(x, query)), query)

\* C10: for any query, in the store or not, find_matches returns exactly
\* the stored snippets that are substrings of the query, other than the
\* query's own slot.
C10_MatchesForAnyQuery ==
    \A query \in Texts :
        find_matches(query, clipboard_history)
            = ExpectedMatches(query, clipboard_history)

\* the number of slots of s that hold x
Occurrences(s, x) == Cardinality({k \in 1..Len(s) : s[k] = x})

\* C11: for a stored query exactly one slot holding the query's value is
\* left out of its matches, so another slot with an equal value is
\* returned, whichever of the equal slots the query is taken from.
C11_SelfExclusionByPosition ==
    \A i \in 1..Len(clipboard_history) :
        LET query == clipboard_history[i]
            m == find_matches(query, clipboard_history)
        IN  /\ m = ExpectedMatches(query, clipboard_history)
            /\ Occurrences(m, query)
                  = Occurrences(clipboard_history, query) - 1

\* two slots hold an equal value, with another snippet between them, and
\* the value is among its own matches
C11_Witness ==
    \E i, j \in 1..Len(clipboard_history) :
        /\ i + 1 < j
        /\ clipboard_history[i] = clipboard_history[j]
        /\ Occurrences(find_matches(clipboard_history[j], clipboard_history),
                       clipboard_history[j]) = 1

\* C12 as claimed: every snippet returned for a stored query is contained
\* in the query and differs from it.
C12_StrictSubstring ==
    \A i \in 1..Len(clipboard_history) :
        LET query == clipboard_history[i]
            m == find_matches(query, clipboard_history)
        IN  \A k \in 1..Len(m) : IsSubstr(m[k], query) /\ m[k] # query

\* C12 as amended: every snippet returned for a stored query is contained
\* in the query, and it equals the query only when the query's value is
\* held by two or more slots.
C12_SubstringOrDuplicate ==
    \A i \in 1..Len(clipboard_history) :
        LET query == clipboard_history[i]
            m == find_matches(query, clipboard_history)
        IN  \A k \in 1..Len(m) :
               /\ IsSubstr(m[k], query)
               /\ m[k] = query => Occurrences(clipboard_history, query) >= 2

\* one stored query has a match equal to itself and a stored query has a
\* match that is shorter than itself
C12_Witness ==
    /\ \E i \in 1..Len(clipboard_history) :
          \E k \in 1..Len(find_matches(clipboard_history[i], clipboard_history)) :
             find_matches(clipboard_history[i], clipboard_history)[k]
                = clipboard_history[i]
    /\ \E i \in 1..Len(clipboard_history) :
          \E k \in 1..Len(find_matches(clipboard_history[i], clipboard_history)) :
             Len(find_matches(clipboard_history[i], clipboard_history)[k])
                < Len(clipboard_history[i])

\* C13: every match of the snippet in slot i is a snippet of an older slot.
C13_MatchesAreOlder ==
    \A i \in 1..Len(clipboard_history) :
        LET m == find_matches(clipboard_history[i], clipboard_history)
        IN  \A k \in 1..Len(m) :
               \E j \in 1..(i - 1) : clipboard_history[j] = m[k]

\* the positions of text at which m starts
StartsOf(m, text) ==
    {p \in 1..(Len(text) - Len(m) + 1) : SubSeq(text, p, p + Len(m) - 1) = m}

HasStar(text) == \E p \in 1..Len(text) : text[p] = "*"

\* C14: of two matches, the shorter a substring of the longer, the longer
\* is wrapped as a whole and the shorter adds no marker inside it (here:
\* the longer occurs once, the shorter only inside it, no text has '*').
C14_LongestFirst ==
    (fmt_pc = "done" /\ Len(fmt_matches) = 2 /\ ~HasStar(fmt_text)) =>
        \A i, j \in 1..2 :
            LET short == fmt_matches[i]
                long == fmt_matches[j]
            IN  (/\ Len(short) < Len(long)
                 /\ IsSubstr(short, long)
                 /\ Cardinality(StartsOf(long, fmt_text)) = 1
                 /\ \A p \in StartsOf(short, fmt_text) :
                       \E q \in StartsOf(long, fmt_text) :
                          q <= p /\ p + Len(short) <= q + Len(long))
                => fmt_result = Replace(fmt_text, long, Star(long))

\* the occurrences of the matches in text: <<slot of the match, start>>
OccurrencesIn(matches, text) ==
    {<<i, p>> \in (1..Len(matches)) \X (1..Len(text)) :
        p \in StartsOf(matches[i], text)}

\* the matches occur at pairwise disjoint positions and none is a substring
\* of another
NonOverlapping(matches, text) ==
    /\ \A i, j \in 1..Len(matches) :
          i # j => ~IsSubstr(matches[i], matches[j])
    /\ \A o1, o2 \in OccurrencesIn(matches, text) :
          o1 # o2 =>
             \/ o1[2] + Len(matches[o1[1]]) <= o2[2]
             \/ o2[2] + Len(matches[o2[1]]) <= o1[2]

RECURSIVE WrapFrom(_, _, _)
\* text from position p on, each occurrence of a match in one pair of
\* asterisks and every other character as it is
WrapFrom(p, matches, text) ==
    IF p > Len(text) THEN <<>>
    ELSE IF \E i \in 1..Len(matches) : p \in StartsOf(matches[i], text)
    THEN LET i == CHOOSE i \in 1..Len(matches) :
                      p \in StartsOf(matches[i], text)
         IN  Star(matches[i]) \o WrapFrom(p + Len(matches[i]), matches, text)
    ELSE <<text[p]>> \o WrapFrom(p + 1, matches, text)

\* C15: for matches at pairwise disjoint positions, none a substring of
\* another, the result is the text with every occurrence of every match in
\* one pair of asterisks and every other character unchanged and in place.
C15_NonOverlappingWrapped ==
    (fmt_pc = "done" /\ NonOverlapping(fmt_matches, fmt_text)) =>
        fmt_result = WrapFrom(1, fmt_matches, fmt_text)

\* C16: the displayed list has one item per stored snippet, newest first,
\* and each item shows the count and the emphasis of that snippet's matches
\* against the store as it is: after every capture, capacity change and
\* explain(), hence in every state.
C16_DisplayConsistency ==
    /\ Len(history_list) = Len(clipboard_history)
    /\ \A i \in 1..Len(clipboard_history) :
          LET snippet == clipboard_history[Len(clipboard_history) + 1 - i]
              m == ExpectedMatches(snippet, clipboard_history)
          IN  /\ history_list[i] = add_history_item(snippet, m)
              /\ IF m = <<>> THEN history_list[i] = snippet
                 ELSE Prefix(history_list[i], 4)
                         = <<"(", Digits[Len(m) + 1], ")", " ">>

\* an accepted capture left two or more snippets on display, the newest
\* one annotated with matches and another one without
C16_Witness ==
    /\ handler \in Captures
    /\ clipboard_history # history_before
    /\ Len(clipboard_history) >= 2
    /\ ExpectedMatches(clipboard_history[Len(clipboard_history)],
                       clipboard_history) # <<>>
    /\ \E i \in 1..Len(clipboard_history) :
          /\ ExpectedMatches(clipboard_history[i], clipboard_history) = <<>>
          /\ history_list[Len(clipboard_history) + 1 - i] = clipboard_history[i]

\* the Notifier runs of an accepted capture: one run that reports the
\* number of matches of the captured text in the store after the append,
\* if there are any, and none otherwise
NotifiesPerMatches ==
    (handler' \in Captures /\ Accepts) =>
        LET m == ExpectedMatches(clipboard, clipboard_history')
        IN  IF m # <<>>
            THEN /\ Len(notify_calls') = 1
                 /\ notify_calls'[1].title
                       = <<Decimal(Len(m)), " matches found">>
                 /\ notify_calls'[1].message = Preview(clipboard)
            ELSE notify_calls' = <<>>

\* C17: an accepted capture invokes the Notifier once, with the match
\* count, if the captured text has matches and not at all if it has none;
\* capacity changes and explain() never invoke the Notifier.
C17_NotificationOnCapture ==
    [][/\ NotifiesPerMatches
       /\ handler' \in {"update_history_size", "explain"} =>
             notify_calls' = <<>>]_vars

\* C18: an accepted capture that runs the Notifier, failing or not, returns
\* with the text as marker, the text appended (the oldest snippet evicted
\* from a full store) and the display refreshed from that store: the
\* outcome of the Notifier does not show in any of them.
C18_NotifierFailureHarmless ==
    [][(handler' \in Captures /\ Accepts /\ notify_calls' # <<>>) =>
         /\ last_text' = clipboard
         /\ clipboard_history' =
               (IF Len(clipboard_history) >= history_size
                THEN Tail(clipboard_history) ELSE clipboard_history)
               \o <<clipboard>>
         /\ history_list' = update_history_display(clipboard_history')
         /\ Len(history_list') = Len(clipboard_history')]_vars

\* an accepted capture whose notify-send raised
C18_Witness ==
    /\ handler \in Captures
    /\ notify_calls # <<>>
    /\ ~notify_calls[1].ok
    /\ clipboard_history # history_before
    /\ last_text = clipboard

C19_ClientProtocol ==
    /\ cl_called => cl_observed
    /\ cl_pc \in {"interface", "call"} => cl_observed
    /\ cl_pc = "wait" => cl_launched /\ ~cl_observed
    /\ (cl_pc = "done" /\ ~cl_observed) => (cl_exit = 1 /\ ~cl_called)

\* the wait ran out: main returned 1 after starting the application,
\* without having seen the service and without a call
C19_Witness ==
    /\ cl_pc = "done"
    /\ cl_launched
    /\ cl_elapsed >= max_wait * TenthsPerSecond
    /\ ~cl_observed
    /\ cl_exit = 1
    /\ ~cl_called

\* C21: no two adjacent stored snippets are equal, and whenever the store
\* is not empty its newest entry is the marker last_text.
C21_AdjacentDiffer ==
    /\ \A i \in 1..(Len(clipboard_history) - 1) :
          clipboard_history[i] # clipboard_history[i + 1]
    /\ clipboard_history # <<>>
          => clipboard_history[Len(clipboard_history)] = last_text

\* a capacity change has cut the store down to two or more entries
C21_Witness ==
    /\ handler = "update_history_size"
    /\ Len(history_before) > Len(clipboard_history)
    /\ Len(clipboard_history) >= 2

\* text with every '*' deleted
WithoutStars(text) == SelectSeq(text, LAMBDA c : c # "*")

\* C22: when neither the text nor any match holds '*', deleting every '*'
\* from format_text_for_ai(text, matches) gives back the text, however the
\* matches overlap.
C22_MarkersOnlyAddStars ==
    (/\ fmt_pc = "done"
     /\ ~HasStar(fmt_text)
     /\ \A i \in 1..Len(fmt_matches) : ~HasStar(fmt_matches[i]))
        => WithoutStars(fmt_result) = fmt_text

\* a rendering of star-free inputs in which one match lies inside another
\* and markers were put into the text
C22_Witness ==
    /\ fmt_pc = "done"
    /\ ~HasStar(fmt_text)
    /\ \A i \in 1..Len(fmt_matches) : ~HasStar(fmt_matches[i])
    /\ \E i, j \in 1..Len(fmt_matches) :
          /\ Len(fmt_matches[i]) < Len(fmt_matches[j])
          /\ IsSubstr(fmt_matches[i], fmt_matches[j])
    /\ Len(fmt_result) > Len(fmt_text) + 4

\* C23: under weak fairness of the poll, a clipboard text that is not blank
\* and differs from last_text does not stay so for ever, and a step that
\* ends it while the clipboard keeps its text has appended that text as the
\* newest stored snippet; no delivery of dataChanged is needed.
C23_PollLiveness ==
    /\ Accepts ~> ~Accepts
    /\ [][(Accepts /\ clipboard' = clipboard
              /\ ~(Strip(clipboard') # <<>> /\ clipboard' # last_text'))
            => /\ clipboard_history' # <<>>
               /\ clipboard_history'[Len(clipboard_history')] = clipboard
               /\ clipboard_history' # clipboard_history]_vars

\* the poll has stored the clipboard text while its dataChanged is still
\* undelivered
C23_Witness ==
    /\ handler = "check_clipboard"
    /\ dataChanged
    /\ clipboard_history # history_before
    /\ clipboard_history[Len(clipboard_history)] = clipboard

====
